---- MODULE Spec2Model ----
(***************************************************************************)
(* Model of FUEL/household.py: the Household class, its subject validation *)
(* (check_stove_type, check_fuel_type) and its three analyses              *)
(* (cooking_events, fuel_usage, cooking_duration) with the caches          *)
(* cook_events and weight_changes they leave on the object.                *)
(*                                                                         *)
(* Sample indices are 0-based as in the source.  Python lists are TLA+     *)
(* sequences, Python dicts are functions over their key set.  A Python     *)
(* string is a sequence of one-character strings, so that iterating over a *)
(* string yields its characters as the source does.  Timestamps are whole  *)
(* minutes since the first sample; weights are whole kilograms.            *)
(***************************************************************************)
EXTENDS Integers, Sequences, FiniteSets, TLC

\* ---- bounds of the model ----
NumSamples == 5      \* rows of the dataframe
MaxTemp == 2         \* stove readings range over 0..MaxTemp
MaxWeight == 3       \* fuel readings range over 0..MaxWeight
MaxGap == 2          \* time_between_events ranges over 1..MaxGap
MaxWeightThreshold == 2  \* weight_threshold ranges over 1..MaxWeightThreshold

\* ---- constants of the program ----
MinutesPerDay == 1440    \* Timedelta.days / Timedelta.seconds split a span at 24h
FuelPeakHeight == 1      \* find_peaks(..., height=1, ...)
FuelPeakDistance == 1    \* find_peaks(..., distance=1)

\* sampling cadences (minutes between two rows) the datasets are drawn from
Steps == {360, 720, 1440}

VARIABLES
    timestamp,            \* df_stoves['timestamp']: row index -> minutes
    df_stoves,            \* the other columns: column name -> (row index -> reading)
    stoves,               \* self.stoves: list of stove names
    fuels,                \* self.fuels: list of fuel names
    temp_threshold,       \* self.temp_threshold
    time_between_events,  \* self.time_between_events
    weight_threshold,     \* self.weight_threshold
    study_duration,       \* self.study_duration, in minutes
    cook_events,          \* self.cook_events: stove -> list of peak indices
    weight_changes,       \* self.weight_changes: fuel -> list of indices
    call,                 \* the last call made on the object: method and argument
    result,               \* what that call returned or raised
    first_duration        \* the first cooking_duration call of the run and its outcome

vars == <<timestamp, df_stoves, stoves, fuels, temp_threshold, time_between_events,
          weight_threshold, study_duration, cook_events, weight_changes,
          call, result, first_duration>>

data == <<timestamp, df_stoves, stoves, fuels, temp_threshold, time_between_events,
          weight_threshold, study_duration>>

\* ---------------------------------------------------------------------------
\* Python values
\* ---------------------------------------------------------------------------

All == <<"A", "l", "l">>

\* the argument of a call: a str, a list of str, or a value of another type
StrArg(s) == [type |-> "str", str |-> s, list |-> <<>>]
ListArg(l) == [type |-> "list", str |-> <<>>, list |-> l]
OtherArg == [type |-> "int", str |-> <<>>, list |-> <<>>]

\* `for s in arg`: the characters of a str, the items of a list
Items(arg) ==
    IF arg.type = "str" THEN [i \in 1..Len(arg.str) |-> <<arg.str[i]>>]
    ELSE arg.list

\* `x in lst`
In(x, lst) == \E i \in 1..Len(lst) : lst[i] = x

\* arg == "All"
IsAll(arg) == arg.type = "str" /\ arg.str = All

\* dict.update({k: v})
Update(d, k, v) == [x \in (DOMAIN d) \cup {k} |-> IF x = k THEN v ELSE d[x]]

EmptyDict == <<>>

\* the elements of a finite set of integers in increasing order
RECURSIVE Ascending(_)
Ascending(S) ==
    IF S = {} THEN <<>>
    ELSE LET m == CHOOSE x \in S : \A y \in S : x <= y
         IN  <<m>> \o Ascending(S \ {m})

\* the keys of a dict built by updating with the items of lst in order
RECURSIVE Keys(_)
Keys(lst) ==
    IF lst = <<>> THEN <<>>
    ELSE LET front == Keys(SubSeq(lst, 1, Len(lst) - 1))
             last == lst[Len(lst)]
         IN  IF In(last, front) THEN front ELSE Append(front, last)

\* len(series)
Size(x) == Cardinality(DOMAIN x)

\* abs(a)
Abs(a) == IF a < 0 THEN -a ELSE a

\* Timedelta.days and Timedelta.seconds/60 of a span of m minutes
Days(m) == m \div MinutesPerDay
SecondsAsMinutes(m) == m % MinutesPerDay

\* ---------------------------------------------------------------------------
\* scipy.signal.find_peaks(x, height, distance)[0]
\* ---------------------------------------------------------------------------

\* [l, r] is a flat top: strictly lower samples on both sides, never a border
IsPlateau(x, l, r) ==
    /\ 1 <= l /\ l <= r /\ r <= Size(x) - 2
    /\ \A i \in l..r : x[i] = x[l]
    /\ x[l - 1] < x[l]
    /\ x[r + 1] < x[l]

\* the midpoints of the flat tops
local_maxima(x) ==
    { (l + r) \div 2 : <<l, r>> \in { p \in (0..Size(x) - 1) \X (0..Size(x) - 1) :
                                        IsPlateau(x, p[1], p[2]) } }

\* peaks are visited from the highest to the lowest (of equal ones the later
\* first); a visited peak that is still kept removes every peak closer than
\* distance to it
RECURSIVE select_by_peak_distance(_, _, _, _)
select_by_peak_distance(x, todo, keep, distance) ==
    IF todo = {} THEN keep
    ELSE LET j == CHOOSE p \in todo :
                     \A q \in todo : x[q] < x[p] \/ (x[q] = x[p] /\ q <= p)
         IN  IF j \in keep
             THEN select_by_peak_distance(x, todo \ {j},
                      {k \in keep : k = j \/ Abs(k - j) >= distance}, distance)
             ELSE select_by_peak_distance(x, todo \ {j}, keep, distance)

find_peaks(x, height, distance) ==
    LET high == {p \in local_maxima(x) : x[p] >= height}
    IN  Ascending(select_by_peak_distance(x, high, high, distance))

\* ---------------------------------------------------------------------------
\* Subject validation
\* ---------------------------------------------------------------------------

Raise(e) == [raised |-> e, list |-> <<>>]

check_stove_type(stove) ==
    IF stove.type \notin {"str", "list"} THEN Raise("ValueError")
    ELSE IF IsAll(stove) THEN [raised |-> "none", list |-> stoves]
    ELSE IF \E i \in 1..Len(Items(stove)) : ~In(Items(stove)[i], stoves)
         THEN Raise("ValueError")
    ELSE IF Items(stove) = <<>> THEN Raise("ValueError")
    ELSE [raised |-> "none", list |-> Items(stove)]

\* ---------------------------------------------------------------------------
\* cooking_events
\* ---------------------------------------------------------------------------

\* the peaks of one stove column
stove_peaks(s) == find_peaks(df_stoves[s], temp_threshold, time_between_events)

\* what cooking_events(stove) raises or returns, and the dict it assigns to
\* self.cook_events as its last statement
cooking_events_out(stove) ==
    IF stove.type # "str"
    THEN [raised |-> "ValueError", keys |-> <<>>, counts |-> EmptyDict, cache |-> cook_events]
    ELSE LET stove_type == check_stove_type(stove)
             keys == Keys(stove_type.list)
             names == {keys[i] : i \in 1..Len(keys)}
         IN  IF stove_type.raised # "none"
             THEN [raised |-> stove_type.raised, keys |-> <<>>, counts |-> EmptyDict,
                   cache |-> cook_events]
             ELSE [raised |-> "none",
                   keys |-> keys,
                   counts |-> [s \in names |-> Len(stove_peaks(s))],
                   cache |-> [s \in names |-> stove_peaks(s)]]

\* ---------------------------------------------------------------------------
\* cooking_duration
\* ---------------------------------------------------------------------------

\* a local variable that no statement has assigned yet
Unbound == -1

\* enumerate(begin[::-1]): position j is sample i-1-j; the first j with a zero
backward_zero(x, i) ==
    {j \in 0..i - 1 : x[i - 1 - j] = 0 /\ \A j2 \in 0..j - 1 : x[i - 1 - j2] # 0}

\* enumerate(end): position k is sample i+k; the first k with a zero
forward_zero(x, i) ==
    {k \in 0..Size(x) - 1 - i : x[i + k] = 0 /\ \A k2 \in 0..k - 1 : x[i + k2] # 0}

\* start_time after the backward scan from peak i
scan_start(x, i, start_time) ==
    IF backward_zero(x, i) = {} THEN start_time
    ELSE i - (CHOOSE j \in backward_zero(x, i) : TRUE)

\* end_time after the forward scan from peak i
scan_end(x, i, end_time) ==
    IF forward_zero(x, i) = {} THEN end_time
    ELSE i + (CHOOSE k \in forward_zero(x, i) : TRUE)

\* the loop over the peaks; start_time and end_time live across iterations
RECURSIVE durations_loop(_, _, _, _, _, _)
durations_loop(x, peaks, n, start_time, end_time, cooking_event_list) ==
    IF n > Len(peaks) THEN [raised |-> "none", list |-> cooking_event_list]
    ELSE LET i == peaks[n]
             s == scan_start(x, i, start_time)
             e == scan_end(x, i, end_time)
         IN  IF s = Unbound \/ e = Unbound
             THEN [raised |-> "UnboundLocalError", list |-> cooking_event_list]
             ELSE durations_loop(x, peaks, n + 1, s, e,
                                 Append(cooking_event_list, <<s, e>>))

\* cooking_durations(stove), reading the cached peaks in events
cooking_durations(events, stove) ==
    IF stove \notin DOMAIN events THEN Raise("KeyError")
    ELSE durations_loop(df_stoves[stove], events[stove], 1, Unbound, Unbound, <<>>)

\* the loop of daily_cooking_time over the (start, end) pairs
RECURSIVE daily_cooking_loop(_, _, _, _, _)
daily_cooking_loop(lst, n, day, mins, daily_cooking) ==
    IF n > Len(lst) THEN daily_cooking
    ELSE LET end_time == timestamp[lst[n][2]]
             start_time == timestamp[lst[n][1]]
             days_since_start == Days(end_time - timestamp[0])
             closed == days_since_start # day
             day1 == IF closed THEN day + 1 ELSE day
             daily1 == IF closed THEN Update(daily_cooking, day1, mins) ELSE daily_cooking
             mins1 == (IF closed THEN 0 ELSE mins) + SecondsAsMinutes(end_time - start_time)
         IN  IF n = Len(lst)
             THEN Update(daily1, day1 + 1, mins1)
             ELSE daily_cooking_loop(lst, n + 1, day1, mins1, daily1)

\* the days 1..n that d lacks are given the value 0
fill_from(d, lo, n) == [k \in (DOMAIN d) \cup (lo..n) |-> IF k \in DOMAIN d THEN d[k] ELSE 0]

daily_cooking_time(cooking_durations_list) ==
    LET daily_cooking == daily_cooking_loop(cooking_durations_list, 1, 0, 0, EmptyDict)
    IN  IF Size(daily_cooking) # Days(study_duration)
        THEN fill_from(daily_cooking, 1, Days(study_duration))
        ELSE daily_cooking

\* the body of cooking_duration after the peaks are in events: one row per key
duration_rows(events, keys) ==
    LET lists == [n \in 1..Len(keys) |-> cooking_durations(events, keys[n])]
        bad == {n \in 1..Len(keys) : lists[n].raised # "none"}
    IN  IF bad # {}
        THEN [raised |-> lists[CHOOSE n \in bad : \A m \in bad : n <= m].raised,
              windows |-> <<>>, table |-> <<>>]
        ELSE [raised |-> "none",
              windows |-> [n \in 1..Len(keys) |-> lists[n].list],
              table |-> [n \in 1..Len(keys) |-> daily_cooking_time(lists[n].list)]]

\* a cooking_duration that trusts the cached peaks of an earlier call
cooking_duration_stale(stove) ==
    LET ev == cooking_events_out(stove)
        rows == duration_rows(cook_events, ev.keys)
    IN  IF ev.raised # "none"
        THEN [raised |-> ev.raised, keys |-> <<>>, windows |-> <<>>, table |-> <<>>,
              cache |-> cook_events]
        ELSE [raised |-> rows.raised, keys |-> ev.keys, windows |-> rows.windows,
              table |-> rows.table, cache |-> cook_events]

\* what cooking_duration(stove) raises or returns, and the value of
\* self.cook_events when it is left
cooking_duration_out(stove) ==
    LET ev == cooking_events_out(stove)
        rows == duration_rows(ev.cache, ev.keys)
    IN  IF ev.raised # "none"
        THEN [raised |-> ev.raised, keys |-> <<>>, windows |-> <<>>, table |-> <<>>,
              cache |-> cook_events]
        ELSE [raised |-> rows.raised, keys |-> ev.keys, windows |-> rows.windows,
              table |-> rows.table, cache |-> ev.cache]

\* ---------------------------------------------------------------------------
\* fuel_usage
\* ---------------------------------------------------------------------------

check_fuel_type(fuel) ==
    IF fuel.type \notin {"str", "list"} THEN Raise("ValueError")
    ELSE IF IsAll(fuel) THEN [raised |-> "none", list |-> fuels]
    ELSE LET fuel_type == SelectSeq(Items(fuel), LAMBDA f : In(f, fuels))
         IN  IF fuel_type = <<>>
             THEN (IF Items(fuel) = <<>> THEN Raise("UnboundLocalError")
                   ELSE Raise("ValueError"))
             ELSE [raised |-> "none", list |-> fuel_type]

\* the candidate indices of one fuel column
fuel_peaks(f) == find_peaks(df_stoves[f], FuelPeakHeight, FuelPeakDistance)

\* the loop of find_significant_changes over peaks[1:]
RECURSIVE significant_loop(_, _, _, _, _)
significant_loop(w, peaks, n, weight, weight_change) ==
    IF n > Len(peaks) THEN weight_change
    ELSE LET i == peaks[n]
             new_weight == w[i]
             kept == ~(Abs(new_weight - weight) < weight_threshold)
             change1 == IF kept THEN Append(weight_change, i) ELSE weight_change
             weight1 == IF kept THEN w[i] ELSE weight
             last_idx == Size(w) - 1
             last_weight == w[last_idx]
             change2 == IF i = peaks[Len(peaks)] /\ last_weight < weight1
                        THEN Append(change1, last_idx) ELSE change1
         IN  significant_loop(w, peaks, n + 1, weight1, change2)

\* a find_significant_changes that loops over all of peaks from an empty list
find_significant_changes_unseeded(w, peaks) ==
    IF peaks = <<>> THEN Raise("IndexError")
    ELSE [raised |-> "none",
          list |-> significant_loop(w, peaks, 1, w[peaks[1]], <<>>)]

\* find_significant_changes(peaks) on the column w
find_significant_changes(w, peaks) ==
    IF peaks = <<>> THEN Raise("IndexError")
    ELSE [raised |-> "none",
          list |-> significant_loop(w, peaks, 2, w[peaks[1]], <<peaks[1]>>)]

\* the loop of daily_fuel_use over the significant changes
RECURSIVE daily_fuel_loop(_, _, _, _, _, _)
daily_fuel_loop(w, changes, n, day, new_weight, daily_fuel_usage) ==
    IF n > Len(changes) THEN daily_fuel_usage
    ELSE LET i == changes[n]
             initial_weight == w[changes[1]]
         IN  IF Days(timestamp[i] - timestamp[0]) = day - 1
             THEN daily_fuel_loop(w, changes, n + 1, day, w[i],
                                  Update(daily_fuel_usage, day, initial_weight - w[i]))
             ELSE daily_fuel_loop(w, changes, n + 1, day + 1, new_weight,
                                  Update(daily_fuel_usage, day + 1, new_weight - w[i]))

daily_fuel_use(w, changes) ==
    LET daily_fuel_usage == daily_fuel_loop(w, changes, 1, 1, 0, EmptyDict)
    IN  IF Size(daily_fuel_usage) # Days(study_duration)
        THEN fill_from(daily_fuel_usage, 2, Days(study_duration))
        ELSE daily_fuel_usage

\* what fuel_usage(fuel) raises or returns, and the dict it assigns to
\* self.weight_changes before it returns
fuel_usage_out(fuel) ==
    LET fuel_type == check_fuel_type(fuel)
        rows == fuel_type.list
        changes == [n \in 1..Len(rows) |->
                       find_significant_changes(df_stoves[rows[n]], fuel_peaks(rows[n]))]
        bad == {n \in 1..Len(rows) : changes[n].raised # "none"}
    IN  IF fuel_type.raised # "none"
        THEN [raised |-> fuel_type.raised, keys |-> <<>>, table |-> <<>>,
              cache |-> weight_changes]
        ELSE IF bad # {}
        THEN [raised |-> changes[CHOOSE n \in bad : \A m \in bad : n <= m].raised,
              keys |-> <<>>, table |-> <<>>, cache |-> weight_changes]
        ELSE [raised |-> "none",
              keys |-> rows,
              table |-> [n \in 1..Len(rows) |->
                            daily_fuel_use(df_stoves[rows[n]], changes[n].list)],
              cache |-> [fl \in {rows[n] : n \in 1..Len(rows)} |->
                            changes[CHOOSE n \in 1..Len(rows) : rows[n] = fl].list]]

\* ---------------------------------------------------------------------------
\* The object and the calls made on it
\* ---------------------------------------------------------------------------

NoCall == [op |-> "none", arg |-> OtherArg]

Outcome(raised, rows, counts, table, windows) ==
    [raised |-> raised, rows |-> rows, counts |-> counts, table |-> table,
     windows |-> windows]

NoResult == Outcome("none", <<>>, EmptyDict, <<>>, <<>>)

\* the part of __init__ after the dataset and the configuration are chosen
Constructed ==
    /\ study_duration = timestamp[NumSamples - 1] - timestamp[0]
    /\ cook_events = EmptyDict
    /\ weight_changes = EmptyDict
    /\ call = NoCall
    /\ result = NoResult
    /\ first_duration = [set |-> FALSE, arg |-> OtherArg, result |-> NoResult,
                         cache |-> EmptyDict, disturbed |-> FALSE]

cooking_events(stove) ==
    \E out \in {cooking_events_out(stove)} :
        /\ call' = [op |-> "cooking_events", arg |-> stove]
        /\ result' = Outcome(out.raised, out.keys, out.counts, <<>>, <<>>)
        /\ cook_events' = out.cache
        /\ first_duration' =
              [first_duration EXCEPT !.disturbed =
                  @ \/ (first_duration.set /\ out.cache # first_duration.cache)]
        /\ UNCHANGED <<data, weight_changes>>

cooking_duration(stove) ==
    \E out \in {cooking_duration_out(stove)} :
    \E res \in {Outcome(out.raised, out.keys, EmptyDict, out.table, out.windows)} :
        /\ call' = [op |-> "cooking_duration", arg |-> stove]
        /\ result' = res
        /\ cook_events' = out.cache
        /\ first_duration' =
              IF first_duration.set THEN first_duration
              ELSE [set |-> TRUE, arg |-> stove, result |-> res, cache |-> out.cache,
                    disturbed |-> FALSE]
        /\ UNCHANGED <<data, weight_changes>>

fuel_usage(fuel) ==
    \E out \in {fuel_usage_out(fuel)} :
        /\ call' = [op |-> "fuel_usage", arg |-> fuel]
        /\ result' = Outcome(out.raised, out.keys, EmptyDict, out.table, <<>>)
        /\ weight_changes' = out.cache
        /\ UNCHANGED <<data, cook_events, first_duration>>

\* ---------------------------------------------------------------------------
\* Datasets
\* ---------------------------------------------------------------------------

Rows == 0..NumSamples - 1

\* a regular sampling every step minutes
Sampled(step) == [i \in Rows |-> i * step]

\* a column that is 0 except for the value v in row k
Pulse(k, v) == [i \in Rows |-> IF i = k THEN v ELSE 0]

a == <<"a">>
bc == <<"b", "c">>
f == <<"f">>
gh == <<"g", "h">>
x == <<"x">>

\* a household with two stoves and two fuels, each column with one excursion,
\* early or late in the study for the first stove and the first fuel
Shapes(v) == {Pulse(1, v), Pulse(NumSamples - 2, v)}

Init ==
    /\ stoves = <<a, bc>>
    /\ fuels = <<f, gh>>
    /\ timestamp = Sampled(720)
    /\ \E ta \in Shapes(MaxTemp), wf \in Shapes(MaxWeight) :
          df_stoves = [c \in {a, bc, f, gh} |->
                          IF c = a THEN ta ELSE IF c = bc THEN Pulse(2, MaxTemp)
                          ELSE IF c = f THEN wf ELSE Pulse(2, MaxWeight)]
    /\ temp_threshold = 1
    /\ time_between_events = 1
    /\ weight_threshold = 1
    /\ Constructed

StoveArgs ==
    {StrArg(All), StrArg(a), StrArg(bc), StrArg(a \o a), StrArg(x),
     ListArg(<<a, bc>>), ListArg(<<a, x>>)}

FuelArgs ==
    {StrArg(All), StrArg(f), StrArg(gh), StrArg(f \o f),
     ListArg(<<f, gh>>), ListArg(<<f, x>>), OtherArg}

Next ==
    \/ \E stove \in StoveArgs : cooking_events(stove)
    \/ \E stove \in StoveArgs : cooking_duration(stove)
    \/ \E fuel \in FuelArgs : fuel_usage(fuel)

Spec == Init /\ [][Next]_vars

\* a household with one stove, over every stove column and configuration
InitStove ==
    /\ stoves = <<a>>
    /\ fuels = <<>>
    /\ \E step \in Steps : timestamp = Sampled(step)
    /\ \E t \in [Rows -> 0..MaxTemp] : df_stoves = [c \in {a} |-> t]
    /\ temp_threshold \in 1..MaxTemp
    /\ time_between_events \in 1..MaxGap
    /\ weight_threshold = 1
    /\ Constructed

\* a household with one fuel, over every fuel column and configuration
InitFuel ==
    /\ stoves = <<>>
    /\ fuels = <<f>>
    /\ \E step \in Steps : timestamp = Sampled(step)
    /\ \E w \in [Rows -> 0..MaxWeight] : df_stoves = [c \in {f} |-> w]
    /\ temp_threshold = 1
    /\ time_between_events = 1
    /\ weight_threshold \in 1..MaxWeightThreshold
    /\ Constructed

InitData == InitStove \/ InitFuel

NextData ==
    \/ cooking_events(StrArg(All))
    \/ cooking_duration(StrArg(All))
    \/ fuel_usage(StrArg(All))

SpecData == InitData /\ [][NextData]_vars

\* ---------------------------------------------------------------------------
\* Properties
\* ---------------------------------------------------------------------------

StoveOps == {"cooking_events", "cooking_duration"}

Returned(op) == call.op = op /\ result.raised = "none"

\* the zero-valued rows of a column before and from row p
ZerosBefore(col, p) == {z \in 0..p - 1 : col[z] = 0}
ZerosAfter(col, p) == {z \in p..Size(col) - 1 : col[z] = 0}

Max(S) == CHOOSE m \in S : \A y \in S : y <= m
Min(S) == CHOOSE m \in S : \A y \in S : m <= y

RECURSIVE Sum(_, _)
Sum(g, S) ==
    IF S = {} THEN 0
    ELSE LET e == CHOOSE e \in S : TRUE IN g[e] + Sum(g, S \ {e})

\* the day of the study (0-based) row i falls in
DayOf(i) == (timestamp[i] - timestamp[0]) \div MinutesPerDay

StudyDays == 1..(study_duration \div MinutesPerDay)

\* C1: every per-subject day series returned by fuel_usage and by
\* cooking_duration has exactly the keys 1..study_duration.days.
C1_DailyCoverage ==
    (Returned("fuel_usage") \/ Returned("cooking_duration")) =>
        \A n \in 1..Len(result.table) : DOMAIN result.table[n] = StudyDays

\* the minutes of the windows of row n whose end falls in day k (1-based)
MinutesEndingOn(n, k) ==
    LET ws == result.windows[n]
        on == {m \in 1..Len(ws) : DayOf(ws[m][2]) = k - 1}
    IN  Sum([m \in on |-> timestamp[ws[m][2]] - timestamp[ws[m][1]]], on)

\* the windows follow each other in time
Chronological(ws) ==
    /\ \A m \in 1..Len(ws) : ws[m][1] <= ws[m][2]
    /\ \A m \in 1..Len(ws) - 1 : ws[m][2] <= ws[m + 1][1]

\* C2: for a chronologically ordered sequence of events of a stove, the value
\* cooking_duration reports for day k is the total of end minus start over
\* the events that end k-1 whole days after the first timestamp.
C2_DailyMinutes ==
    Returned("cooking_duration") =>
        \A n \in 1..Len(result.table) :
            Chronological(result.windows[n]) =>
                \A k \in DOMAIN result.table[n] :
                    result.table[n][k] = MinutesEndingOn(n, k)

\* the fuel used in day k (1-based) according to the retained points L of the
\* column w: reading at the last point before the day (at the first point of
\* all for the first observed day) minus reading at the last point in the day
UsedOn(w, L, k) ==
    LET within == {m \in 1..Len(L) : DayOf(L[m]) = k - 1}
        before == {m \in 1..Len(L) : DayOf(L[m]) < k - 1}
        base == IF before = {} THEN w[L[1]] ELSE w[L[Max(before)]]
    IN  IF within = {} THEN 0 ELSE base - w[L[Max(within)]]

\* C3: the value fuel_usage reports for a fuel and a day is the fuel used in
\* that day, not the consumption accumulated since the start of the study.
C3_DailyFuel ==
    Returned("fuel_usage") =>
        \A n \in 1..Len(result.table) : \A k \in DOMAIN result.table[n] :
            result.table[n][k] =
                UsedOn(df_stoves[result.rows[n]], weight_changes[result.rows[n]], k)

\* C4: a peak p with a zero-valued row before and after it is resolved to
\* (start, end) with start <= p <= end, both readings 0, start the nearest
\* zero-valued row before p and end the nearest one after it.
C4_BoundaryContainment ==
    Returned("cooking_duration") =>
        \A n \in 1..Len(result.rows) :
            LET col == df_stoves[result.rows[n]]
                peaks == cook_events[result.rows[n]]
            IN  \A m \in 1..Len(peaks) :
                    LET p == peaks[m]
                        start == result.windows[n][m][1]
                        end == result.windows[n][m][2]
                    IN  (ZerosBefore(col, p) # {} /\ ZerosAfter(col, p) # {}) =>
                            /\ start <= p /\ p <= end
                            /\ col[start] = 0 /\ col[end] = 0
                            /\ start = Max(ZerosBefore(col, p))
                            /\ end = Min(ZerosAfter(col, p))

\* the request names a subject that lst does not configure
Unconfigured(arg, lst) ==
    \/ arg.type = "str" /\ ~IsAll(arg) /\ ~In(arg.str, lst)
    \/ arg.type = "list" /\ \E i \in 1..Len(arg.list) : ~In(arg.list[i], lst)

\* C5: a call that names an unconfigured stove (cooking_events,
\* cooking_duration) or fuel (fuel_usage) raises, returns nothing and leaves
\* cook_events and weight_changes as they were.
C5_UnknownSubjectRaises ==
    [][ ( \/ call'.op \in StoveOps /\ Unconfigured(call'.arg, stoves)
          \/ call'.op = "fuel_usage" /\ Unconfigured(call'.arg, fuels) )
        => ( /\ result'.raised # "none"
             /\ cook_events' = cook_events
             /\ weight_changes' = weight_changes ) ]_vars

\* the request is a configured name, a list of configured names, or "All"
Configured(arg, lst) ==
    \/ IsAll(arg)
    \/ arg.type = "str" /\ In(arg.str, lst)
    \/ arg.type = "list" /\ arg.list # <<>>
          /\ \A i \in 1..Len(arg.list) : In(arg.list[i], lst)

\* the subjects such a request asks for
Requested(arg, lst) ==
    IF IsAll(arg) THEN lst
    ELSE IF arg.type = "str" THEN <<arg.str>>
    ELSE arg.list

\* C6: a call given a configured name, a list of configured names or "All"
\* succeeds and the rows of its result are the requested subjects.
C6_RequestShapes ==
    /\ (call.op \in StoveOps /\ Configured(call.arg, stoves)) =>
           (result.raised = "none" /\ result.rows = Requested(call.arg, stoves))
    /\ (call.op = "fuel_usage" /\ Configured(call.arg, fuels)) =>
           (result.raised = "none" /\ result.rows = Requested(call.arg, fuels))

\* C7: cooking_duration(S) has the outcome the first cooking_duration(S) of
\* the run had, whatever was called between, and when it returns a table it
\* leaves the cook_events that the first one left.
C7_DurationIndependent ==
    (call.op = "cooking_duration" /\ first_duration.set
        /\ call.arg = first_duration.arg) =>
        /\ result = first_duration.result
        /\ result.raised = "none" => cook_events = first_duration.cache

\* a later cooking_duration(S) returned a table after a cooking_events call
\* had put other peaks in the cache and a fuel_usage call had run
C7_Witness ==
    /\ call.op = "cooking_duration"
    /\ first_duration.set /\ first_duration.disturbed
    /\ call.arg = first_duration.arg
    /\ result.raised = "none"
    /\ \E n \in 1..Len(result.table) : \E k \in DOMAIN result.table[n] :
          result.table[n][k] > 0
    /\ weight_changes # EmptyDict

\* C8 as stated: the list find_significant_changes returns is no longer than
\* the candidate list and starts with the first candidate.
C8_ThinningNoLonger ==
    Returned("fuel_usage") =>
        \A fl \in DOMAIN weight_changes :
            /\ Len(weight_changes[fl]) >= 1
            /\ Len(weight_changes[fl]) <= Len(fuel_peaks(fl))
            /\ weight_changes[fl][1] = fuel_peaks(fl)[1]

\* C8 amended: the list find_significant_changes returns has at most one
\* element more than the candidate list (the index of the final sample) and
\* starts with the first candidate.
C8_ThinningAtMostOneMore ==
    Returned("fuel_usage") =>
        \A fl \in DOMAIN weight_changes :
            /\ Len(weight_changes[fl]) >= 1
            /\ Len(weight_changes[fl]) <= Len(fuel_peaks(fl)) + 1
            /\ weight_changes[fl][1] = fuel_peaks(fl)[1]

\* every candidate was kept and the final sample was appended as well
C8_Witness ==
    /\ Returned("fuel_usage")
    /\ \E fl \in DOMAIN weight_changes :
          /\ Len(fuel_peaks(fl)) >= 2
          /\ Len(weight_changes[fl]) = Len(fuel_peaks(fl)) + 1
          /\ weight_changes[fl][1] = fuel_peaks(fl)[1]

\* C9: find_significant_changes appends the index of the final sample exactly
\* when the final reading is lower than the last kept reading, also for a
\* single candidate.
C9_FinalSampleAppended ==
    Returned("fuel_usage") =>
        \A fl \in DOMAIN weight_changes :
            LET w == df_stoves[fl]
                L == weight_changes[fl]
                last_idx == Size(w) - 1
                appended == L[Len(L)] = last_idx
                kept == IF appended THEN SubSeq(L, 1, Len(L) - 1) ELSE L
            IN  appended <=> (w[last_idx] < w[kept[Len(kept)]])

\* C10: for a peak with no zero-valued row on one side the scan on that side
\* runs to the border of the column, and the value resolved is never the one
\* resolved for the peak processed before it.
C10_OpenSideNotInherited ==
    Returned("cooking_duration") =>
        \A n \in 1..Len(result.rows) :
            LET col == df_stoves[result.rows[n]]
                peaks == cook_events[result.rows[n]]
                ws == result.windows[n]
            IN  \A m \in 1..Len(peaks) :
                    /\ ZerosBefore(col, peaks[m]) = {} =>
                          /\ ws[m][1] = 0
                          /\ m > 1 => ws[m][1] # ws[m - 1][1]
                    /\ ZerosAfter(col, peaks[m]) = {} =>
                          /\ ws[m][2] = Size(col) - 1
                          /\ m > 1 => ws[m][2] # ws[m - 1][2]

\* two (start, end) windows are the same or share more than a boundary row
Overlapping(w1, w2) ==
    \/ w1 = w2
    \/ /\ w1[1] < w2[2] /\ w2[1] < w1[2]
       /\ w1[1] <= w1[2] /\ w2[1] <= w2[2]

\* C11: two distinct peaks of one stove never resolve to the same or to
\* overlapping windows, so that no interval is counted twice in the stove's
\* daily minutes, also when no zero-valued row lies between the peaks.
C11_OneEventPerExcursion ==
    Returned("cooking_duration") =>
        \A n \in 1..Len(result.rows) :
            LET ws == result.windows[n]
            IN  \A m1 \in 1..Len(ws) : \A m2 \in 1..Len(ws) :
                    m1 < m2 => ~Overlapping(ws[m1], ws[m2])

====
